---- MODULE Spec2Model ----
(***************************************************************************)
(* Model of link-persona-bot.                                              *)
(*                                                                         *)
(*   Spec     the ConversationManager store (bot/state/                    *)
(*            conversation_manager.py) driven by direct method calls       *)
(*   SpecApi  one HTTP request through bot/api_client.py, api/main.py and  *)
(*            the services, with the collaborators' outcomes chosen freely *)
(*   SpecBot  the bot's handlers over the store, interleaved at their      *)
(*            await points                                                 *)
(***************************************************************************)
EXTENDS Integers, Sequences, FiniteSets, TLC

\* ------------------------------------------------------------------ bounds
\* messages that may be logged (over all channels) before add_message is no
\* longer offered; above conversation_history_limit so that eviction happens
MaxAppends == 22
\* largest explicit limit passed to get_history
MaxLimit == 3

\* --------------------------------------------------------- program constants
conversation_history_limit == 20
conversation_context_window == 10

\* ------------------------------------------------------------------- inputs
Channels == {101, 102}
None == "None"
\* ids of the personas the loader has read from api/personas/*.yaml
LoadedIds == {"kind", "sarcastic"}
\* an id no file defines
UnknownId == "ghost"
\* an omitted limit (limit=None) is the empty tuple, limit=n is <<n>>
NoLimit == <<>>
Limits == {NoLimit} \cup {<<n>> : n \in 0..MaxLimit}

VARIABLES
    channel_personas,      \* ConversationManager._channel_personas (None = no key)
    conversation_history,  \* ConversationManager._conversation_history values
    history_keys,          \* keys present in the defaultdict
    appended,              \* per channel: messages appended since its history was last cleared
    lastCall,              \* the store call that returned last, with its return value
    load_order,            \* PersonaLoader._personas: the ids in insertion (glob) order
    api,                   \* the request the API process is handling: inputs, locals, position
    calls,                 \* the collaborator calls made for it, in order
    resp,                  \* what the endpoint (or the service, when called directly) answered
    client,                \* what APIClient._make_request gave the bot
    tasks,                 \* the bot's event handlers in flight: locals and position
    msg_seq,               \* message events (mentions, URLs) received so far
    bot_channel_personas,      \* PersonaBot.channel_personas of bot/main.py (None = no key)
    bot_conversation_history,  \* PersonaBot.conversation_history values (<<>> when no key)
    bot_history_keys           \* keys present in PersonaBot.conversation_history

storeVars == <<channel_personas, conversation_history, history_keys, appended>>
apiVars == <<load_order, api, calls, resp, client>>
botVars == <<tasks, msg_seq>>
legacyVars == <<bot_channel_personas, bot_conversation_history, bot_history_keys>>
vars == <<channel_personas, conversation_history, history_keys, appended, lastCall,
          load_order, api, calls, resp, client, tasks, msg_seq,
          bot_channel_personas, bot_conversation_history, bot_history_keys>>

\* ------------------------------------------------------------------ helpers
Min(a, b) == IF a < b THEN a ELSE b
Max(a, b) == IF a > b THEN a ELSE b

\* Python s[k:] for 0 <= k
DropFirst(s, k) == SubSeq(s, k + 1, Len(s))
\* Python s[-n:] for n > 0
LastN(s, n) == SubSeq(s, Max(1, Len(s) - n + 1), Len(s))

RECURSIVE SumLen(_, _)
SumLen(f, S) ==
    IF S = {} THEN 0
    ELSE LET c == CHOOSE x \in S : TRUE IN Len(f[c]) + SumLen(f, S \ {c})

\* ------------------------------------------------- ConversationManager
\* add_message without the trim
add_message_no_trim(history, message) == Append(history, message)

\* add_message trimming at the wrong end
add_message_drop_newest(history, message) ==
    LET h == Append(history, message) IN
    IF Len(h) > conversation_history_limit
    THEN SubSeq(h, 1, conversation_history_limit)
    ELSE h

\* the list add_message leaves under the channel's key
add_message(history, message) ==
    LET h == Append(history, message) IN
    IF Len(h) > conversation_history_limit
    THEN DropFirst(h, Len(h) - conversation_history_limit)
    ELSE h

\* get_history slicing from the wrong end
get_history_oldest(history, limit) ==
    LET lim == IF limit = NoLimit THEN conversation_context_window ELSE limit[1] IN
    IF lim > 0 THEN SubSeq(history, 1, Min(lim, Len(history))) ELSE history

\* the list get_history returns
get_history(history, limit) ==
    LET lim == IF limit = NoLimit THEN conversation_context_window ELSE limit[1] IN
    IF lim > 0 THEN LastN(history, lim) ELSE history

\* get_all_channels
get_all_channels(personas, keys) ==
    {c \in Channels : personas[c] # None} \cup keys

\* get_stats
get_stats(personas, history, keys) ==
    [total_channels |-> Cardinality(get_all_channels(personas, keys)),
     channels_with_persona |-> Cardinality({c \in Channels : personas[c] # None}),
     channels_with_history |-> Cardinality(keys),
     total_messages |-> SumLen(history, keys)]

\* ======================================================= the API process
\* ---------------------------------------------------------------- personas
\* Persona objects as _load_persona_from_file builds them (id = file stem)
Personas ==
    [id \in LoadedIds |->
        [id |-> id,
         name |-> <<"name", id>>,
         icon |-> <<"icon", id>>,
         color |-> IF id = "kind" THEN 255 ELSE 16711680,
         description |-> <<"description", id>>,
         system_prompt |-> <<"system_prompt", id>>]]

\* PersonaLoader.get_persona: the id when a persona is stored under it, else None
loader_get_persona(persona_id) ==
    IF persona_id \in LoadedIds THEN persona_id ELSE None

\* next(iter(all_personas.values())): the first persona in insertion order
first_persona(order) == IF Len(order) > 0 THEN order[1] ELSE None

\* Python truthiness of an Optional[str]
Truthy(x) == x # None /\ x # ""

\* ---------------------------------------------------------------- exceptions
\* classes by qualified name; api.* are the classes of api/exceptions.py
LLMErrorClasses == {"api.LLMError", "api.LLMTimeoutError", "api.LLMRateLimitError"}
ExceptionClasses ==
    LLMErrorClasses \cup
    {"api.ArticleFetchError", "api.ArticleParseError", "api.PersonaNotFoundError",
     "fetcher.ArticleFetchError", "httpx.HTTPError", "httpx.ReadError",
     "RuntimeError", "AttributeError", "ValueError"}

\* isinstance(exc, cls) for the classes the except clauses name
IsInstance(exc, cls) ==
    CASE cls = "Exception" -> exc \in ExceptionClasses
      [] cls = "api.LLMError" -> exc \in LLMErrorClasses
      [] cls = "httpx.HTTPError" -> exc \in {"httpx.HTTPError", "httpx.ReadError"}
      [] OTHER -> exc = cls

\* ---------------------------------------------------------------- text
Whitespace == {" ", "\n"}

RECURSIVE LStrip(_)
LStrip(t) == IF t # <<>> /\ Head(t) \in Whitespace THEN LStrip(Tail(t)) ELSE t

RECURSIVE RStrip(_)
RStrip(t) ==
    IF t # <<>> /\ t[Len(t)] \in Whitespace THEN RStrip(SubSeq(t, 1, Len(t) - 1)) ELSE t

\* str.strip()
Strip(t) == RStrip(LStrip(t))

\* ---------------------------------------------------------------- fetcher
max_content_length == 2000

\* url.startswith(("http://", "https://")); a url is <<scheme, rest>>
valid_scheme(url) == url[1] \in {"http", "https"}

\* what _fetch_html and _extract_content can give fetch_article: an HTTP or
\* transport error, an extraction that yields nothing, or a title and a text
\* (the text by its length)
FetchOutcomes ==
    {[kind |-> k, title |-> None, len |-> 0] : k \in {"http_error", "no_content"}} \cup
    {[kind |-> "extracted", title |-> t, len |-> n] :
        t \in {None, "Title"}, n \in {1, max_content_length, max_content_length + 1}}

\* the exception fetch_article raises for an outcome, None when it returns
fetch_article_raises(url, outcome) ==
    IF ~valid_scheme(url) THEN "fetcher.ArticleFetchError"
    ELSE IF outcome.kind = "http_error" THEN "fetcher.ArticleFetchError"
    ELSE IF outcome.kind = "no_content" THEN "fetcher.ArticleFetchError"
    ELSE None

\* the dict fetch_article returns
fetch_article(url, outcome) ==
    LET truncated == outcome.len > max_content_length IN
    [url |-> url,
     title |-> outcome.title,
     content_len |-> IF truncated THEN max_content_length + 3 ELSE outcome.len,
     truncated |-> truncated]

NoArticle == [url |-> <<>>, title |-> None, content_len |-> 0, truncated |-> FALSE]

\* ---------------------------------------------------------------- llm client
LLMTexts == {<<"a">>, <<" ", "b", "\n">>}

\* what the chat-completions service can do to chat_completion
LLMOutcomes ==
    {[kind |-> "text", text |-> t] : t \in LLMTexts} \cup
    {[kind |-> k, text |-> <<>>] :
        k \in {"null_content", "http_status", "bad_structure", "connect", "timeout",
               "read_error"}}

\* the exception chat_completion raises for an outcome, None when it returns
chat_completion_raises(outcome) ==
    CASE outcome.kind \in {"http_status", "bad_structure", "connect", "timeout"} -> "RuntimeError"
      [] outcome.kind = "read_error" -> "httpx.ReadError"
      [] OTHER -> None

\* the exception raised inside a caller's try block around
\* `(await chat_completion(...)).strip()`: None has no strip
llm_call_raises(outcome) ==
    IF chat_completion_raises(outcome) # None THEN chat_completion_raises(outcome)
    ELSE IF outcome.kind = "null_content" THEN "AttributeError"
    ELSE None

\* messages generate_persona_response sends when called without a history
persona_response_messages(system_prompt, user_message, history) ==
    <<[role |-> "system", content |-> system_prompt]>>
        \o (IF history # <<>> THEN LastN(history, 10) ELSE <<>>)
        \o <<[role |-> "user", content |-> user_message]>>

\* ---------------------------------------------------------------- services
\* _select_persona that ignores the id it is given
select_persona_ignores_id(persona_id, order) ==
    IF Len(order) = 0
    THEN [persona |-> None, raises |-> "api.PersonaNotFoundError"]
    ELSE [persona |-> first_persona(order), raises |-> None]

\* _select_persona: [persona, raises]
select_persona(persona_id, order) ==
    IF Truthy(persona_id)
    THEN IF loader_get_persona(persona_id) = None
         THEN [persona |-> None, raises |-> "api.PersonaNotFoundError"]
         ELSE [persona |-> loader_get_persona(persona_id), raises |-> None]
    ELSE IF Len(order) = 0
         THEN [persona |-> None, raises |-> "api.PersonaNotFoundError"]
         ELSE [persona |-> first_persona(order), raises |-> None]

\* the persona generate_debate works with
debate_persona(persona_id, order) ==
    LET found == IF Truthy(persona_id) THEN loader_get_persona(persona_id) ELSE None IN
    IF found = None THEN first_persona(order) ELSE found

\* the except clauses of generate_summary: what leaves it for exc raised in its try
generate_summary_except(exc) ==
    IF IsInstance(exc, "api.ArticleFetchError") THEN exc
    ELSE IF IsInstance(exc, "api.PersonaNotFoundError") THEN exc
    ELSE IF IsInstance(exc, "api.LLMError") THEN exc
    ELSE "api.LLMError"

\* the except clauses of generate_debate
generate_debate_except(exc) ==
    IF IsInstance(exc, "api.ArticleFetchError") THEN exc
    ELSE IF IsInstance(exc, "api.LLMError") THEN exc
    ELSE "api.LLMError"

\* the `except Exception` around every LLM call of the services
llm_site_except(exc) == "api.LLMError"

PersonaInfo(persona) ==
    IF persona = None
    THEN [name |-> <<"assistant">>, icon |-> <<"speech">>, color |-> 5793266,
          description |-> <<"kind assistant">>]
    ELSE [name |-> Personas[persona].name, icon |-> Personas[persona].icon,
          color |-> Personas[persona].color, description |-> Personas[persona].description]

NoBody ==
    [summary |-> <<>>, response |-> <<>>, persona |-> PersonaInfo(None),
     article_title |-> None, article_url |-> <<>>, context_used |-> -1]

\* IngestResponse(...) at the end of generate_summary
IngestResponse(summary, persona, article) ==
    [NoBody EXCEPT !.summary = summary,
                   !.persona = PersonaInfo(persona),
                   !.article_title = article.title,
                   !.article_url = article.url]

\* DebateResponse(...) at the end of generate_debate
DebateResponse(text, persona, history) ==
    [NoBody EXCEPT !.response = text,
                   !.persona = PersonaInfo(persona),
                   !.context_used = IF history # <<>> THEN Len(history) ELSE 0]

\* ---------------------------------------------------------------- endpoints
\* status 0: the exception leaves the endpoint
ingest_url_status_no_catch_all(exc) ==
    IF IsInstance(exc, "api.ArticleFetchError") THEN 400
    ELSE IF IsInstance(exc, "api.PersonaNotFoundError") THEN 404
    ELSE 0

\* the except clauses of ingest_url: the HTTPException status for exc
ingest_url_status(exc) ==
    IF IsInstance(exc, "api.ArticleFetchError") THEN 400
    ELSE IF IsInstance(exc, "api.PersonaNotFoundError") THEN 404
    ELSE IF IsInstance(exc, "api.LLMError") THEN 500
    ELSE IF IsInstance(exc, "Exception") THEN 500
    ELSE 0

\* the except clauses of debate_article
debate_article_status(exc) ==
    IF IsInstance(exc, "api.PersonaNotFoundError") THEN 404
    ELSE IF IsInstance(exc, "api.LLMError") THEN 500
    ELSE IF IsInstance(exc, "Exception") THEN 500
    ELSE 0

\* ---------------------------------------------------------------- bot client
\* the outcome of APIClient._make_request once a response is there:
\* body_ok says whether response.json() parses
make_request_result(status, body_ok) ==
    IF status >= 400 THEN [ok |-> FALSE, error |-> "APIClientError", status_code |-> status]
    ELSE IF ~body_ok THEN [ok |-> FALSE, error |-> "APIClientError", status_code |-> 0]
    ELSE [ok |-> TRUE, error |-> None, status_code |-> status]

\* ---------------------------------------------------------------- requests
Urls == {<<"https", "example.org/a">>}
\* urls a direct caller of the services may pass (the endpoint passes "")
ServiceUrls == Urls \cup {<<"", "">>}
IngestPersonaIds == {None, ""} \cup LoadedIds \cup {UnknownId}
DebatePersonaIds == {""} \cup LoadedIds \cup {UnknownId}
\* longest conversation_history of a request
MaxReqHistory == 2

ReqHistory(n) ==
    [i \in 1..n |-> [role |-> IF i % 2 = 1 THEN "user" ELSE "assistant",
                     content |-> <<"h", i>>]]
UserMessage == <<"u">>

IdleApi ==
    [pc |-> "idle", kind |-> "none", via |-> "none", url |-> <<>>, persona_id |-> None,
     history |-> <<>>, req_history |-> <<>>, original_summary |-> <<>>,
     article |-> NoArticle, extracted |-> 0, persona |-> None, stance |-> <<>>,
     counter |-> <<>>]
NoResp == [done |-> FALSE, status |-> 0, exc |-> None, body |-> NoBody]
IdleClient == [pc |-> "idle", attempts |-> 0, result |-> make_request_result(0, TRUE)]

CallRec(site, messages) == [site |-> site, messages |-> messages, failed |-> FALSE]
\* the call in flight has returned with an error
FailLast(cs) == [cs EXCEPT ![Len(cs)].failed = TRUE]

\* the orders in which glob may deliver the persona files
LoadOrders == {<<"kind", "sarcastic">>, <<"sarcastic", "kind">>}

\* ---------------------------------------------------------------- bot tasks
Tasks == {1, 2}
\* message events (mentions and URLs) the bot receives
MaxMessages == 2
\* the task a new event runs as: the first free slot
FreeTask(ts) == CHOOSE t \in Tasks : ts[t].pc = "idle" /\ \A u \in Tasks : ts[u].pc = "idle" => t <= u
\* a handler's locals; read_persona and read_history are the channel's state
\* in the store when _respond_with_persona read it
IdleTask ==
    [pc |-> "idle", kind |-> "none", ch |-> 0, persona_id |-> None, content |-> <<>>,
     history |-> <<>>, messages |-> <<>>, read_persona |-> None, read_history |-> <<>>,
     seq |-> 0, url |-> <<>>]

\* no message event
NoEvent ==
    [seq |-> 0, ch |-> 0, from_self |-> FALSE, slash |-> FALSE, urls |-> <<>>,
     mentioned |-> FALSE]

NoCall ==
    [op |-> "init", ch |-> 0, persona |-> None, limit |-> NoLimit,
     ret_history |-> <<>>, ret_persona |-> None, ret_channels |-> {},
     pre_history |-> <<>>, pre_persona |-> None, raised |-> None, ret_text |-> <<>>,
     event |-> NoEvent, result |-> None]

Call(op, c) == [NoCall EXCEPT !.op = op, !.ch = c]

\* the message the next add_message on channel c carries: the n-th message of
\* the conversation; the only caller (message_handler.py:160-161) alternates roles
NextMessage(c) ==
    LET n == Len(appended[c]) + 1 IN
    [role |-> IF n % 2 = 1 THEN "user" ELSE "assistant", content |-> <<c, n>>]

Init ==
    /\ channel_personas = [c \in Channels |-> None]
    /\ conversation_history = [c \in Channels |-> <<>>]
    /\ history_keys = {}
    /\ appended = [c \in Channels |-> <<>>]
    /\ lastCall = NoCall
    /\ load_order = <<"kind", "sarcastic">>
    /\ api = IdleApi
    /\ calls = <<>>
    /\ resp = NoResp
    /\ client = IdleClient
    /\ tasks = [t \in Tasks |-> IdleTask]
    /\ msg_seq = 0
    /\ bot_channel_personas = [c \in Channels |-> None]
    /\ bot_conversation_history = [c \in Channels |-> <<>>]
    /\ bot_history_keys = {}

SetPersona(c, p) ==
    /\ UNCHANGED <<apiVars, legacyVars, botVars>>
    /\ channel_personas' = [channel_personas EXCEPT ![c] = p]
    /\ lastCall' = [Call("set_persona", c) EXCEPT !.persona = p]
    /\ UNCHANGED <<conversation_history, history_keys, appended>>

GetPersona(c) ==
    /\ UNCHANGED <<apiVars, legacyVars, botVars>>
    /\ lastCall' = [Call("get_persona", c) EXCEPT !.ret_persona = channel_personas[c]]
    /\ UNCHANGED storeVars

AddMessage(c) ==
    /\ UNCHANGED <<apiVars, legacyVars, botVars>>
    /\ SumLen(appended, Channels) < MaxAppends
    /\ conversation_history' =
         [conversation_history EXCEPT ![c] = add_message(@, NextMessage(c))]
    /\ history_keys' = history_keys \cup {c}
    /\ appended' = [appended EXCEPT ![c] = Append(@, NextMessage(c))]
    /\ lastCall' = [Call("add_message", c) EXCEPT !.pre_history = conversation_history[c]]
    /\ UNCHANGED channel_personas

GetHistory(c, limit) ==
    /\ UNCHANGED <<apiVars, legacyVars, botVars>>
    /\ history_keys' = history_keys \cup {c}
    /\ lastCall' = [Call("get_history", c) EXCEPT
                      !.limit = limit,
                      !.ret_history = get_history(conversation_history[c], limit)]
    /\ UNCHANGED <<channel_personas, conversation_history, appended>>

\* clear_history that drops every channel's history
ClearHistory_all(c) ==
    /\ UNCHANGED <<apiVars, legacyVars, botVars>>
    /\ conversation_history' = [d \in Channels |-> <<>>]
    /\ history_keys' = {}
    /\ appended' = [d \in Channels |-> <<>>]
    /\ lastCall' = Call("clear_history", c)
    /\ UNCHANGED channel_personas

ClearHistory(c) ==
    /\ UNCHANGED <<apiVars, legacyVars, botVars>>
    /\ conversation_history' = [conversation_history EXCEPT ![c] = <<>>]
    /\ history_keys' = history_keys \ {c}
    /\ appended' = [appended EXCEPT ![c] = <<>>]
    /\ lastCall' = Call("clear_history", c)
    /\ UNCHANGED channel_personas

\* reset_persona that forgets the trailing clear_history
ResetPersona_keep_history(c) ==
    /\ UNCHANGED <<apiVars, legacyVars, botVars>>
    /\ channel_personas' = [channel_personas EXCEPT ![c] = None]
    /\ lastCall' = [Call("reset_persona", c) EXCEPT
                      !.pre_history = conversation_history[c],
                      !.pre_persona = channel_personas[c]]
    /\ UNCHANGED <<conversation_history, history_keys, appended>>

ResetPersona(c) ==
    /\ UNCHANGED <<apiVars, legacyVars, botVars>>
    /\ channel_personas' = [channel_personas EXCEPT ![c] = None]
    /\ conversation_history' = [conversation_history EXCEPT ![c] = <<>>]
    /\ history_keys' = history_keys \ {c}
    /\ appended' = [appended EXCEPT ![c] = <<>>]
    /\ lastCall' = [Call("reset_persona", c) EXCEPT
                      !.pre_history = conversation_history[c],
                      !.pre_persona = channel_personas[c]]

GetAllChannels ==
    /\ UNCHANGED <<apiVars, legacyVars, botVars>>
    /\ lastCall' = [Call("get_all_channels", 0) EXCEPT
                      !.ret_channels = get_all_channels(channel_personas, history_keys)]
    /\ UNCHANGED storeVars

Next ==
    \/ \E c \in Channels, p \in LoadedIds \cup {UnknownId} : SetPersona(c, p)
    \/ \E c \in Channels : GetPersona(c)
    \/ \E c \in Channels : AddMessage(c)
    \/ \E c \in Channels, limit \in Limits : GetHistory(c, limit)
    \/ \E c \in Channels : ClearHistory(c)
    \/ \E c \in Channels : ResetPersona(c)
    \/ GetAllChannels

Spec == Init /\ [][Next]_vars

\* ---------------------------------------------------------------- requests handled
\* the bot side of a request: client.request(...) is executed once; it either
\* reaches the API or fails to connect (httpx.RequestError)
ClientSends(via, delivered) ==
    IF via = "bot"
    THEN /\ client.pc = "idle"
         /\ client' = [pc |-> IF delivered THEN "waiting" ELSE "done",
                         attempts |-> client.attempts + 1,
                         result |-> IF delivered THEN client.result
                                    ELSE [ok |-> FALSE, error |-> "APIClientError",
                                          status_code |-> 0]]
    ELSE delivered /\ UNCHANGED client

IngestFails(exc) ==
    LET e == generate_summary_except(exc) IN
    [done |-> TRUE, status |-> ingest_url_status(e), exc |-> e, body |-> NoBody]

DebateFails(kind, exc) ==
    LET e == generate_debate_except(exc) IN
    [done |-> TRUE, status |-> IF kind = "debate" THEN debate_article_status(e) ELSE 0,
     exc |-> e, body |-> NoBody]

SummaryPrompt(article) == <<"summarize", article.url, article.title>>
SystemPrompt(persona) ==
    IF persona = None THEN <<"default system prompt">> ELSE Personas[persona].system_prompt

\* ingest that resolves the persona before it fetches the article
StartIngest_selects_first(via, url, persona_id, delivered) ==
    /\ api.pc = "idle"
    /\ ClientSends(via, delivered)
    /\ IF ~delivered THEN UNCHANGED <<api, calls, resp>>
       ELSE IF select_persona(persona_id, load_order).raises # None
       THEN /\ api' = [api EXCEPT !.pc = "done", !.kind = "ingest", !.via = via,
                                  !.url = url, !.persona_id = persona_id]
            /\ resp' = IngestFails(select_persona(persona_id, load_order).raises)
            /\ UNCHANGED calls
       ELSE /\ api' = [api EXCEPT !.pc = "await_fetch", !.kind = "ingest", !.via = via,
                                  !.url = url, !.persona_id = persona_id]
            /\ calls' = Append(calls, CallRec("fetch", <<>>))
            /\ UNCHANGED resp
    /\ UNCHANGED <<storeVars, lastCall, botVars, legacyVars, load_order>>

\* POST /ingest up to the first await: ingest_url -> generate_summary -> fetch_article
StartIngest(via, url, persona_id, delivered) ==
    /\ api.pc = "idle"
    /\ ClientSends(via, delivered)
    /\ IF ~delivered THEN UNCHANGED <<api, calls, resp>>
       ELSE IF fetch_article_raises(url, [kind |-> "extracted"]) # None
       THEN /\ api' = [api EXCEPT !.pc = "done", !.kind = "ingest", !.via = via,
                                  !.url = url, !.persona_id = persona_id]
            /\ resp' = IngestFails(fetch_article_raises(url, [kind |-> "extracted"]))
            /\ UNCHANGED calls
       ELSE /\ api' = [api EXCEPT !.pc = "await_fetch", !.kind = "ingest", !.via = via,
                                  !.url = url, !.persona_id = persona_id]
            /\ calls' = Append(calls, CallRec("fetch", <<>>))
            /\ UNCHANGED resp
    /\ UNCHANGED <<storeVars, lastCall, botVars, legacyVars, load_order>>

\* ingest answering from the fetched article alone, without the LLM
IngestFetchReturns_no_llm(outcome) ==
    /\ api.pc = "await_fetch" /\ api.kind = "ingest"
    /\ LET exc == fetch_article_raises(api.url, outcome)
           article == fetch_article(api.url, outcome)
           sel == select_persona(api.persona_id, load_order)
       IN IF exc # None
          THEN /\ resp' = IngestFails(exc)
               /\ calls' = FailLast(calls)
               /\ api' = [api EXCEPT !.pc = "done"]
          ELSE IF sel.raises # None
          THEN /\ resp' = IngestFails(sel.raises)
               /\ api' = [api EXCEPT !.pc = "done", !.article = article, !.extracted = outcome.len]
               /\ UNCHANGED calls
          ELSE /\ resp' = [done |-> TRUE, status |-> 200, exc |-> None,
                           body |-> IngestResponse(<<"a">>, sel.persona, article)]
               /\ api' = [api EXCEPT !.pc = "done", !.article = article, !.extracted = outcome.len,
                                     !.persona = sel.persona]
               /\ UNCHANGED calls
    /\ UNCHANGED <<storeVars, lastCall, botVars, legacyVars, load_order, client>>

\* ingest: fetch_article returns or raises; on success _select_persona runs and
\* _generate_persona_summary issues the LLM call
IngestFetchReturns(outcome) ==
    /\ api.pc = "await_fetch" /\ api.kind = "ingest"
    /\ LET exc == fetch_article_raises(api.url, outcome)
           article == fetch_article(api.url, outcome)
           sel == select_persona(api.persona_id, load_order)
       IN IF exc # None
          THEN /\ resp' = IngestFails(exc)
               /\ calls' = FailLast(calls)
               /\ api' = [api EXCEPT !.pc = "done"]
          ELSE IF sel.raises # None
          THEN /\ resp' = IngestFails(sel.raises)
               /\ api' = [api EXCEPT !.pc = "done", !.article = article, !.extracted = outcome.len]
               /\ UNCHANGED calls
          ELSE /\ calls' = Append(calls,
                      CallRec("llm_summary",
                              persona_response_messages(SystemPrompt(sel.persona),
                                                        SummaryPrompt(article), <<>>)))
               /\ api' = [api EXCEPT !.pc = "await_llm_summary", !.article = article, !.extracted = outcome.len,
                                     !.persona = sel.persona]
               /\ UNCHANGED resp
    /\ UNCHANGED <<storeVars, lastCall, botVars, legacyVars, load_order, client>>

\* ingest: a failed LLM call is issued again instead of being reported
IngestLLMReturns_retry(outcome) ==
    /\ api.pc = "await_llm_summary"
    /\ LET exc == llm_call_raises(outcome) IN
       IF exc # None
       THEN /\ calls' = Append(FailLast(calls), CallRec("llm_summary", calls[Len(calls)].messages))
            /\ UNCHANGED <<resp, api>>
       ELSE /\ resp' = [done |-> TRUE, status |-> 200, exc |-> None,
                        body |-> IngestResponse(Strip(outcome.text), api.persona, api.article)]
            /\ api' = [api EXCEPT !.pc = "done"]
            /\ UNCHANGED calls
    /\ UNCHANGED <<storeVars, lastCall, botVars, legacyVars, load_order, client>>

\* ingest: the LLM call returns or raises; the response is built
IngestLLMReturns(outcome) ==
    /\ api.pc = "await_llm_summary"
    /\ LET exc == llm_call_raises(outcome) IN
       IF exc # None
       THEN /\ resp' = IngestFails(llm_site_except(exc))
            /\ calls' = FailLast(calls)
       ELSE /\ resp' = [done |-> TRUE, status |-> 200, exc |-> None,
                        body |-> IngestResponse(Strip(outcome.text), api.persona, api.article)]
            /\ UNCHANGED calls
    /\ api' = [api EXCEPT !.pc = "done"]
    /\ UNCHANGED <<storeVars, lastCall, botVars, legacyVars, load_order, client>>

\* debate_article passing the request history on without the user message
StartDebate_history_only(via, persona_id, n, delivered) ==
    /\ api.pc = "idle"
    /\ ClientSends(via, delivered)
    /\ IF ~delivered THEN UNCHANGED <<api, calls, resp>>
       ELSE LET persona == debate_persona(persona_id, load_order)
                started == [api EXCEPT !.kind = "debate", !.via = via, !.url = <<"", "">>,
                                       !.persona_id = persona_id, !.persona = persona,
                                       !.req_history = ReqHistory(n),
                                       !.history = ReqHistory(n)]
            IN IF n > 0
               THEN /\ api' = [started EXCEPT !.pc = "await_llm_conversation"]
                    /\ calls' = Append(calls,
                           CallRec("llm_conversation",
                                   <<[role |-> "system", content |-> SystemPrompt(persona)]>>
                                       \o ReqHistory(n)))
                    /\ UNCHANGED resp
               ELSE /\ api' = [started EXCEPT !.pc = "done"]
                    /\ resp' = DebateFails("debate",
                                  fetch_article_raises(<<"", "">>, [kind |-> "extracted"]))
                    /\ UNCHANGED calls
    /\ UNCHANGED <<storeVars, lastCall, botVars, legacyVars, load_order>>

\* POST /debate up to the first await: debate_article appends the user
\* message and calls generate_debate(url="", ...)
StartDebate(via, persona_id, n, delivered) ==
    /\ api.pc = "idle"
    /\ ClientSends(via, delivered)
    /\ IF ~delivered THEN UNCHANGED <<api, calls, resp>>
       ELSE LET full_history ==
                    Append(ReqHistory(n), [role |-> "user", content |-> UserMessage])
                persona == debate_persona(persona_id, load_order)
            IN /\ api' = [api EXCEPT !.pc = "await_llm_conversation", !.kind = "debate",
                                     !.via = via, !.url = <<"", "">>,
                                     !.persona_id = persona_id, !.persona = persona,
                                     !.req_history = ReqHistory(n),
                                     !.history = full_history]
               /\ calls' = Append(calls,
                      CallRec("llm_conversation",
                              <<[role |-> "system", content |-> SystemPrompt(persona)]>>
                                  \o full_history))
               /\ UNCHANGED resp
    /\ UNCHANGED <<storeVars, lastCall, botVars, legacyVars, load_order>>

\* DebateService.generate_debate called directly, up to its first await
StartGenerateDebate(url, persona_id, original_summary, n) ==
    /\ api.pc = "idle"
    /\ LET persona == debate_persona(persona_id, load_order)
           started == [api EXCEPT !.kind = "generate_debate", !.via = "direct",
                                  !.url = url, !.persona_id = persona_id,
                                  !.persona = persona,
                                  !.original_summary = original_summary,
                                  !.req_history = ReqHistory(n),
                                  !.history = ReqHistory(n)]
       IN IF n > 0
          THEN /\ api' = [started EXCEPT !.pc = "await_llm_conversation"]
               /\ calls' = Append(calls,
                      CallRec("llm_conversation",
                              <<[role |-> "system", content |-> SystemPrompt(persona)]>>
                                  \o ReqHistory(n)))
               /\ UNCHANGED resp
          ELSE IF fetch_article_raises(url, [kind |-> "extracted"]) # None
          THEN /\ api' = [started EXCEPT !.pc = "done"]
               /\ resp' = DebateFails("generate_debate",
                                      fetch_article_raises(url, [kind |-> "extracted"]))
               /\ UNCHANGED calls
          ELSE /\ api' = [started EXCEPT !.pc = "await_fetch"]
               /\ calls' = Append(calls, CallRec("fetch", <<>>))
               /\ UNCHANGED resp
    /\ UNCHANGED <<storeVars, lastCall, botVars, legacyVars, load_order, client>>

\* _generate_conversation_response: the LLM call returns or raises
ConversationLLMReturns(outcome) ==
    /\ api.pc = "await_llm_conversation"
    /\ LET exc == llm_call_raises(outcome) IN
       IF exc # None
       THEN /\ resp' = DebateFails(api.kind, llm_site_except(exc))
            /\ calls' = FailLast(calls)
       ELSE /\ resp' = [done |-> TRUE, status |-> IF api.kind = "debate" THEN 200 ELSE 0,
                        exc |-> None,
                        body |-> DebateResponse(Strip(outcome.text), api.persona, api.history)]
            /\ UNCHANGED calls
    /\ api' = [api EXCEPT !.pc = "done"]
    /\ UNCHANGED <<storeVars, lastCall, botVars, legacyVars, load_order, client>>

\* _generate_article_debate: fetch_article returns or raises; on success the
\* stance is taken from original_summary or asked of the LLM
DebateFetchReturns(outcome) ==
    /\ api.pc = "await_fetch" /\ api.kind = "generate_debate"
    /\ LET exc == fetch_article_raises(api.url, outcome)
           article == fetch_article(api.url, outcome)
       IN IF exc # None
          THEN /\ resp' = DebateFails(api.kind, exc)
               /\ calls' = FailLast(calls)
               /\ api' = [api EXCEPT !.pc = "done"]
          ELSE IF api.original_summary # <<>>
          THEN /\ calls' = Append(calls, CallRec("llm_counter", <<>>))
               /\ api' = [api EXCEPT !.pc = "await_llm_counter", !.article = article, !.extracted = outcome.len,
                                     !.stance = api.original_summary]
               /\ UNCHANGED resp
          ELSE /\ calls' = Append(calls, CallRec("llm_stance", <<>>))
               /\ api' = [api EXCEPT !.pc = "await_llm_stance", !.article = article, !.extracted = outcome.len]
               /\ UNCHANGED resp
    /\ UNCHANGED <<storeVars, lastCall, botVars, legacyVars, load_order, client>>

\* _extract_stance: the LLM call returns or raises
StanceLLMReturns(outcome) ==
    /\ api.pc = "await_llm_stance"
    /\ LET exc == llm_call_raises(outcome) IN
       IF exc # None
       THEN /\ resp' = DebateFails(api.kind, llm_site_except(exc))
            /\ calls' = FailLast(calls)
            /\ api' = [api EXCEPT !.pc = "done"]
       ELSE /\ calls' = Append(calls, CallRec("llm_counter", <<>>))
            /\ api' = [api EXCEPT !.pc = "await_llm_counter", !.stance = Strip(outcome.text)]
            /\ UNCHANGED resp
    /\ UNCHANGED <<storeVars, lastCall, botVars, legacyVars, load_order, client>>

\* _generate_counter_argument: the LLM call returns or raises
CounterLLMReturns(outcome) ==
    /\ api.pc = "await_llm_counter"
    /\ LET exc == llm_call_raises(outcome) IN
       IF exc # None
       THEN /\ resp' = DebateFails(api.kind, llm_site_except(exc))
            /\ calls' = FailLast(calls)
            /\ api' = [api EXCEPT !.pc = "done"]
       ELSE /\ calls' = Append(calls, CallRec("llm_debate_summary", <<>>))
            /\ api' = [api EXCEPT !.pc = "await_llm_debate_summary",
                                  !.counter = Strip(outcome.text)]
            /\ UNCHANGED resp
    /\ UNCHANGED <<storeVars, lastCall, botVars, legacyVars, load_order, client>>

\* _generate_debate_summary: the LLM call returns or raises; the text is formatted
DebateSummaryLLMReturns(outcome) ==
    /\ api.pc = "await_llm_debate_summary"
    /\ LET exc == llm_call_raises(outcome) IN
       IF exc # None
       THEN /\ resp' = DebateFails(api.kind, llm_site_except(exc))
            /\ calls' = FailLast(calls)
       ELSE /\ resp' = [done |-> TRUE, status |-> 0, exc |-> None,
                        body |-> DebateResponse(
                                     Strip(api.stance) \o Strip(api.counter) \o Strip(outcome.text),
                                     api.persona, api.history)]
            /\ UNCHANGED calls
    /\ api' = [api EXCEPT !.pc = "done"]
    /\ UNCHANGED <<storeVars, lastCall, botVars, legacyVars, load_order, client>>

\* _make_request: the response arrives; status >= 400 and an unparsable body
\* become APIClientError
ClientReceives(body_ok) ==
    /\ client.pc = "waiting" /\ resp.done
    /\ client' = [client EXCEPT !.pc = "done",
                                !.result = make_request_result(resp.status, body_ok)]
    /\ UNCHANGED <<storeVars, lastCall, botVars, legacyVars, load_order, api, calls, resp>>

\* _make_request: httpx.TimeoutException after api_timeout, while the API works on
ClientTimesOut ==
    /\ client.pc = "waiting" /\ ~resp.done
    /\ client' = [client EXCEPT !.pc = "done",
                                !.result = [ok |-> FALSE, error |-> "APIClientError",
                                            status_code |-> 0]]
    /\ UNCHANGED <<storeVars, lastCall, botVars, legacyVars, load_order, api, calls, resp>>

NextApi ==
    \/ \E via \in {"bot", "http"}, url \in Urls, p \in IngestPersonaIds, d \in BOOLEAN :
           StartIngest(via, url, p, d)
    \/ \E o \in FetchOutcomes : IngestFetchReturns(o)
    \/ \E o \in LLMOutcomes : IngestLLMReturns(o)
    \/ \E via \in {"bot", "http"}, p \in DebatePersonaIds, n \in 0..MaxReqHistory,
          d \in BOOLEAN : StartDebate(via, p, n, d)
    \/ \E url \in ServiceUrls, p \in DebatePersonaIds \cup {None},
          s \in {<<>>, <<"s">>}, n \in 0..MaxReqHistory : StartGenerateDebate(url, p, s, n)
    \/ \E o \in LLMOutcomes : ConversationLLMReturns(o)
    \/ \E o \in FetchOutcomes : DebateFetchReturns(o)
    \/ \E o \in LLMOutcomes : StanceLLMReturns(o)
    \/ \E o \in LLMOutcomes : CounterLLMReturns(o)
    \/ \E o \in LLMOutcomes : DebateSummaryLLMReturns(o)
    \/ \E b \in BOOLEAN : ClientReceives(b)
    \/ ClientTimesOut

InitApi ==
    /\ channel_personas = [c \in Channels |-> None]
    /\ conversation_history = [c \in Channels |-> <<>>]
    /\ history_keys = {}
    /\ appended = [c \in Channels |-> <<>>]
    /\ lastCall = NoCall
    /\ load_order \in LoadOrders
    /\ api = IdleApi
    /\ calls = <<>>
    /\ resp = NoResp
    /\ client = IdleClient
    /\ tasks = [t \in Tasks |-> IdleTask]
    /\ msg_seq = 0
    /\ bot_channel_personas = [c \in Channels |-> None]
    /\ bot_conversation_history = [c \in Channels |-> <<>>]
    /\ bot_history_keys = {}

SpecApi == InitApi /\ [][NextApi]_vars

\* ======================================================= the bot's handlers
\* CommandHandler and MessageHandler over the ConversationManager. discord.py
\* runs every event as its own task on one event loop: a handler runs alone
\* from one await to the next, and other handlers run while it awaits.

\* what the LLM service can do to generate_persona_response
BotLLMOutcomes ==
    {[kind |-> k, text |-> <<>>] : k \in {"text", "null_content", "timeout"}}
\* what APIClient.ingest_url can give handle_url
IngestCallOutcomes == {"ok", "api_error", "bad_shape"}

\* handle_persona_set that binds the persona before looking it up
HandlePersonaSet_unchecked(c, p) ==
    /\ channel_personas' = [channel_personas EXCEPT ![c] = p]
    /\ conversation_history' = [conversation_history EXCEPT ![c] = <<>>]
    /\ history_keys' = history_keys \ {c}
    /\ appended' = [appended EXCEPT ![c] = <<>>]
    /\ lastCall' = [Call("handle_persona_set", c) EXCEPT
                      !.persona = p,
                      !.raised = IF loader_get_persona(p) = None
                                 THEN "PersonaNotFoundError" ELSE None,
                      !.pre_history = conversation_history[c],
                      !.pre_persona = channel_personas[c]]
    /\ UNCHANGED <<apiVars, legacyVars, botVars>>

\* CommandHandler.handle_persona_set
HandlePersonaSet(c, p) ==
    /\ IF loader_get_persona(p) = None
       THEN /\ lastCall' = [Call("handle_persona_set", c) EXCEPT
                              !.persona = p, !.raised = "PersonaNotFoundError",
                              !.pre_history = conversation_history[c],
                              !.pre_persona = channel_personas[c]]
            /\ UNCHANGED storeVars
       ELSE /\ channel_personas' = [channel_personas EXCEPT ![c] = p]
            /\ conversation_history' = [conversation_history EXCEPT ![c] = <<>>]
            /\ history_keys' = history_keys \ {c}
            /\ appended' = [appended EXCEPT ![c] = <<>>]
            /\ lastCall' = [Call("handle_persona_set", c) EXCEPT !.persona = p]
    /\ UNCHANGED <<apiVars, legacyVars, botVars>>

\* CommandHandler.handle_persona_reset
HandlePersonaReset(c) ==
    /\ IF ~Truthy(channel_personas[c])
       THEN UNCHANGED storeVars
       ELSE /\ channel_personas' = [channel_personas EXCEPT ![c] = None]
            /\ conversation_history' = [conversation_history EXCEPT ![c] = <<>>]
            /\ history_keys' = history_keys \ {c}
            /\ appended' = [appended EXCEPT ![c] = <<>>]
    /\ lastCall' = [Call("handle_persona_reset", c) EXCEPT
                      !.pre_persona = channel_personas[c]]
    /\ UNCHANGED <<apiVars, legacyVars, botVars>>

\* MessageHandler.handle_mention up to its await: get_persona, then
\* _respond_with_persona (loader lookup, get_history, LLM call issued) or
\* _respond_without_persona (LLM call issued)
MentionStarts(t, c) ==
    /\ tasks[t].pc = "idle" /\ t = FreeTask(tasks)
    /\ msg_seq < MaxMessages
    /\ msg_seq' = msg_seq + 1
    /\ LET persona_id == channel_personas[c]
           content == <<"user", c, msg_seq + 1>>
           started == [IdleTask EXCEPT !.kind = "mention", !.ch = c,
                                       !.persona_id = persona_id, !.content = content]
       IN IF ~Truthy(persona_id)
          THEN /\ tasks' = [tasks EXCEPT ![t] =
                              [started EXCEPT !.pc = "await_llm_plain",
                                 !.messages = persona_response_messages(
                                                  SystemPrompt(None), content, <<>>)]]
               /\ UNCHANGED <<storeVars, lastCall>>
          ELSE IF loader_get_persona(persona_id) = None
          THEN /\ tasks' = [tasks EXCEPT ![t] = IdleTask]
               /\ lastCall' = [Call("handle_mention", c) EXCEPT
                                 !.ret_text = <<"error: persona not found">>]
               /\ UNCHANGED storeVars
          ELSE /\ history_keys' = history_keys \cup {c}
               /\ tasks' = [tasks EXCEPT ![t] =
                              [started EXCEPT
                                 !.pc = "await_llm",
                                 !.history = get_history(conversation_history[c], NoLimit),
                                 !.messages = persona_response_messages(
                                                  SystemPrompt(persona_id), content,
                                                  get_history(conversation_history[c], NoLimit)),
                                 !.read_persona = channel_personas[c],
                                 !.read_history = conversation_history[c]]]
               /\ UNCHANGED <<channel_personas, conversation_history, appended, lastCall>>
    /\ UNCHANGED <<apiVars, legacyVars>>

\* _respond_with_persona after its await: the LLM call returns or raises; on
\* return the user message and the response are appended. A response of None
\* (a null content) is appended too, and add_message then raises on
\* len(content)
MentionLLMReturns(t, outcome) ==
    /\ tasks[t].pc = "await_llm"
    /\ LET c == tasks[t].ch
           exc == chat_completion_raises(outcome)
           response == IF outcome.kind = "null_content" THEN <<"None">>
                       ELSE <<"reply", tasks[t].persona_id, tasks[t].content>>
           user == [role |-> "user", content |-> tasks[t].content]
           assistant == [role |-> "assistant", content |-> response]
       IN IF exc # None
          THEN /\ lastCall' = [Call("handle_mention", c) EXCEPT
                                 !.persona = tasks[t].persona_id,
                                 !.raised = "MessageHandlingError",
                                 !.pre_history = conversation_history[c],
                                 !.pre_persona = channel_personas[c]]
               /\ UNCHANGED storeVars
          ELSE /\ conversation_history' =
                     [conversation_history EXCEPT
                        ![c] = add_message(add_message(@, user), assistant)]
               /\ history_keys' = history_keys \cup {c}
               /\ appended' = [appended EXCEPT ![c] = Append(Append(@, user), assistant)]
               /\ lastCall' = [Call("handle_mention", c) EXCEPT
                                 !.persona = tasks[t].persona_id,
                                 !.raised = IF outcome.kind = "null_content"
                                            THEN "MessageHandlingError" ELSE None,
                                 !.ret_text = IF outcome.kind = "null_content"
                                              THEN <<>> ELSE response,
                                 !.pre_history = conversation_history[c],
                                 !.pre_persona = channel_personas[c]]
               /\ UNCHANGED channel_personas
    /\ tasks' = [tasks EXCEPT ![t] = IdleTask]
    /\ UNCHANGED <<apiVars, legacyVars, msg_seq>>

\* _respond_without_persona after its await
PlainLLMReturns(t, outcome) ==
    /\ tasks[t].pc = "await_llm_plain"
    /\ LET c == tasks[t].ch
           exc == llm_call_raises(outcome)
       IN lastCall' = [Call("handle_mention", c) EXCEPT
                         !.raised = IF exc # None THEN "MessageHandlingError" ELSE None,
                         !.ret_text = IF exc # None THEN <<>>
                                      ELSE <<"reply", None, tasks[t].content>>]
    /\ tasks' = [tasks EXCEPT ![t] = IdleTask]
    /\ UNCHANGED <<storeVars, apiVars, legacyVars, msg_seq>>

\* MessageHandler.handle_url up to its await: get_persona, ingest_url issued
UrlStarts(t, c) ==
    /\ tasks[t].pc = "idle" /\ t = FreeTask(tasks)
    /\ msg_seq < MaxMessages
    /\ msg_seq' = msg_seq + 1
    /\ tasks' = [tasks EXCEPT ![t] =
                   [IdleTask EXCEPT !.pc = "await_api", !.kind = "url", !.ch = c,
                                    !.persona_id = channel_personas[c]]]
    /\ UNCHANGED <<storeVars, lastCall, apiVars, legacyVars>>

\* handle_url after its await: the result is returned, APIClientError is
\* re-raised, anything else becomes URLDetectionError
UrlApiReturns(t, outcome) ==
    /\ tasks[t].pc = "await_api"
    /\ lastCall' = [Call("handle_url", tasks[t].ch) EXCEPT
                      !.raised = CASE outcome = "ok" -> None
                                   [] outcome = "api_error" -> "APIClientError"
                                   [] OTHER -> "URLDetectionError"]
    /\ tasks' = [tasks EXCEPT ![t] = IdleTask]
    /\ UNCHANGED <<storeVars, apiVars, legacyVars, msg_seq>>

NextBot ==
    \/ \E c \in Channels, p \in LoadedIds \cup {UnknownId} : HandlePersonaSet(c, p)
    \/ \E c \in Channels : HandlePersonaReset(c)
    \/ \E t \in Tasks, c \in Channels : MentionStarts(t, c)
    \/ \E t \in Tasks, o \in BotLLMOutcomes : MentionLLMReturns(t, o)
    \/ \E t \in Tasks, o \in BotLLMOutcomes : PlainLLMReturns(t, o)
    \/ \E t \in Tasks, c \in Channels : UrlStarts(t, c)
    \/ \E t \in Tasks, o \in IngestCallOutcomes : UrlApiReturns(t, o)

SpecBot == Init /\ [][NextBot]_vars

\* ===================================================== the set-persona paths
\* The three ways a persona is set: CommandHandler.handle_persona_set and the
\* dropdown of bot/ui/persona_components.py on the ConversationManager, and
\* the /persona command and dropdown of bot/main.py on PersonaBot's own dicts.
\* None of them awaits before it is done with the state.

\* longest conversation, in exchanges, a channel holds when a persona is set
PriorExchanges == 1

\* the history k answered mentions leave on channel c
RECURSIVE Exchanges(_, _)
Exchanges(c, k) ==
    IF k = 0 THEN <<>>
    ELSE Exchanges(c, k - 1) \o
         <<[role |-> "user", content |-> <<"user", c, k>>],
           [role |-> "assistant", content |-> <<"reply", "kind", <<"user", c, k>>>>]>>

\* style argument of /persona: omitted, "reset", or a persona id
LegacyStyles == {None, "reset"} \cup LoadedIds \cup {UnknownId}

\* PersonaSelect.callback of bot/ui/persona_components.py
PersonaSelectCallback(c, p) ==
    /\ IF loader_get_persona(p) = None
       THEN /\ lastCall' = [Call("PersonaSelect.callback", c) EXCEPT
                              !.persona = p,
                              !.ret_text = <<"error: persona not found">>,
                              !.pre_history = conversation_history[c],
                              !.pre_persona = channel_personas[c]]
            /\ UNCHANGED storeVars
       ELSE /\ channel_personas' = [channel_personas EXCEPT ![c] = p]
            /\ conversation_history' = [conversation_history EXCEPT ![c] = <<>>]
            /\ history_keys' = history_keys \ {c}
            /\ appended' = [appended EXCEPT ![c] = <<>>]
            /\ lastCall' = [Call("PersonaSelect.callback", c) EXCEPT
                              !.persona = p,
                              !.pre_history = conversation_history[c],
                              !.pre_persona = channel_personas[c]]
    /\ UNCHANGED <<apiVars, legacyVars, botVars>>

\* PersonaSelect.callback of bot/main.py
LegacySelectCallback(c, p) ==
    /\ IF loader_get_persona(p) = None
       THEN /\ lastCall' = [Call("main.PersonaSelect.callback", c) EXCEPT
                              !.persona = p,
                              !.ret_text = <<"error: persona not found">>,
                              !.pre_history = bot_conversation_history[c],
                              !.pre_persona = bot_channel_personas[c]]
            /\ UNCHANGED legacyVars
       ELSE /\ bot_channel_personas' = [bot_channel_personas EXCEPT ![c] = p]
            /\ bot_conversation_history' =
                   IF c \in bot_history_keys
                   THEN [bot_conversation_history EXCEPT ![c] = <<>>]
                   ELSE bot_conversation_history
            /\ UNCHANGED bot_history_keys
            /\ lastCall' = [Call("main.PersonaSelect.callback", c) EXCEPT
                              !.persona = p,
                              !.pre_history = bot_conversation_history[c],
                              !.pre_persona = bot_channel_personas[c]]
    /\ UNCHANGED <<storeVars, apiVars, botVars>>

\* /persona <style> that leaves the stored conversation in place
LegacyPersonaCommand_keep_history(c, style) ==
    /\ IF style \in LoadedIds
       THEN /\ bot_channel_personas' = [bot_channel_personas EXCEPT ![c] = style]
            /\ UNCHANGED <<bot_conversation_history, bot_history_keys>>
       ELSE UNCHANGED legacyVars
    /\ lastCall' = [Call("persona_command", c) EXCEPT
                      !.persona = style,
                      !.pre_history = bot_conversation_history[c],
                      !.pre_persona = bot_channel_personas[c]]
    /\ UNCHANGED <<storeVars, apiVars, botVars>>

\* persona_command of bot/main.py: /persona reset, /persona <style>, /persona
LegacyPersonaCommand(c, style) ==
    /\ IF Truthy(style) /\ style = "reset"
       THEN IF bot_channel_personas[c] # None
            THEN /\ bot_channel_personas' = [bot_channel_personas EXCEPT ![c] = None]
                 /\ bot_conversation_history' =
                        [bot_conversation_history EXCEPT ![c] = <<>>]
                 /\ bot_history_keys' = bot_history_keys \ {c}
            ELSE UNCHANGED legacyVars
       ELSE IF Truthy(style)
       THEN IF loader_get_persona(style) = None
            THEN UNCHANGED legacyVars
            ELSE /\ bot_channel_personas' = [bot_channel_personas EXCEPT ![c] = style]
                 /\ bot_conversation_history' =
                        IF c \in bot_history_keys
                        THEN [bot_conversation_history EXCEPT ![c] = <<>>]
                        ELSE bot_conversation_history
                 /\ UNCHANGED bot_history_keys
       ELSE UNCHANGED legacyVars
    /\ lastCall' = [Call("persona_command", c) EXCEPT
                      !.persona = style,
                      !.ret_text = IF Truthy(style) /\ style # "reset"
                                      /\ loader_get_persona(style) = None
                                   THEN <<"error: persona not found">> ELSE <<>>,
                      !.pre_history = bot_conversation_history[c],
                      !.pre_persona = bot_channel_personas[c]]
    /\ UNCHANGED <<storeVars, apiVars, botVars>>

\* a store as answered mentions, failed mentions and earlier commands leave
\* it: any binding, a conversation of up to n exchanges, and an empty list
\* under the key of a bound channel
PriorStore(personas, history, keys, n) ==
    /\ personas \in [Channels -> {None} \cup LoadedIds]
    /\ \E k \in [Channels -> 0..n] :
           history = [c \in Channels |-> Exchanges(c, k[c])]
    /\ \E ks \in SUBSET Channels :
           /\ \A c \in ks : personas[c] # None
           /\ keys = ks \cup {c \in Channels : history[c] # <<>>}

EmptyStore(personas, history, keys) ==
    /\ personas = [c \in Channels |-> None]
    /\ history = [c \in Channels |-> <<>>]
    /\ keys = {}

\* the bot runs with the ConversationManager or with PersonaBot's dicts: one
\* of the two starts with conversations, the other as constructed
InitSetPersona ==
    /\ \/ /\ PriorStore(channel_personas, conversation_history, history_keys, PriorExchanges)
          /\ EmptyStore(bot_channel_personas, bot_conversation_history, bot_history_keys)
       \/ /\ EmptyStore(channel_personas, conversation_history, history_keys)
          /\ PriorStore(bot_channel_personas, bot_conversation_history, bot_history_keys, PriorExchanges)
    /\ appended = conversation_history
    /\ lastCall = NoCall
    /\ load_order = <<"kind", "sarcastic">>
    /\ api = IdleApi
    /\ calls = <<>>
    /\ resp = NoResp
    /\ client = IdleClient
    /\ tasks = [t \in Tasks |-> IdleTask]
    /\ msg_seq = 0

NextSetPersona ==
    \/ \E c \in Channels, p \in LoadedIds \cup {UnknownId} : HandlePersonaSet(c, p)
    \/ \E c \in Channels, p \in LoadedIds \cup {UnknownId} : PersonaSelectCallback(c, p)
    \/ \E c \in Channels, p \in LoadedIds \cup {UnknownId} : LegacySelectCallback(c, p)
    \/ \E c \in Channels, style \in LegacyStyles : LegacyPersonaCommand(c, style)

SpecSetPersona == InitSetPersona /\ [][NextSetPersona]_vars

\* ============================================= mentions in long conversations
\* the mention handlers of SpecBot, started on channels that already hold a
\* conversation longer than the context window

\* longest conversation, in exchanges, a channel holds when a mention arrives
MentionPriorExchanges == 6

InitMention ==
    /\ PriorStore(channel_personas, conversation_history, history_keys,
                  MentionPriorExchanges)
    /\ \A c \in Channels : channel_personas[c] = None => conversation_history[c] = <<>>
    /\ appended = conversation_history
    /\ lastCall = NoCall
    /\ load_order = <<"kind", "sarcastic">>
    /\ api = IdleApi
    /\ calls = <<>>
    /\ resp = NoResp
    /\ client = IdleClient
    /\ tasks = [t \in Tasks |-> IdleTask]
    /\ msg_seq = 0
    /\ EmptyStore(bot_channel_personas, bot_conversation_history, bot_history_keys)

NextMention ==
    \/ \E t \in Tasks, c \in Channels : MentionStarts(t, c)
    \/ \E t \in Tasks, o \in BotLLMOutcomes : MentionLLMReturns(t, o)
    \/ \E t \in Tasks, o \in BotLLMOutcomes : PlainLLMReturns(t, o)

SpecMention == InitMention /\ [][NextMention]_vars

\* ===================================================== PersonaBot of bot/main.py
\* on_message and the handlers it dispatches to, over PersonaBot's own dicts.
\* Each handler is a task: it runs alone up to its next await (entering
\* channel.typing(), the LLM call, the API call).

\* the URLs URL_PATTERN finds in a message, in order
UrlLists ==
    {<<>>, <<<<"https", "example.org/a">>>>,
     <<<<"https", "example.org/b">>, <<"https", "example.org/a">>>>}

\* the keys of the body POST /ingest answers with
IngestResponseKeys == {"summary", "persona", "article_title", "article_url"}
\* the keys handle_url_summary subscripts before it sends the embed
EmbedKeys == {"persona_icon", "persona_name", "summary", "persona_color", "url"}
\* what APIClient.ingest_url gives handle_url_summary
LegacyIngestOutcomes == {"ok", "api_error"}

\* on_message that looks at the mention before it looks for URLs
OnMessage_mention_first(t, c, from_self, slash, urls, mentioned) ==
    /\ tasks[t].pc = "idle" /\ t = FreeTask(tasks)
    /\ msg_seq < MaxMessages
    /\ LET e == [seq |-> msg_seq + 1, ch |-> c, from_self |-> from_self,
                 slash |-> slash, urls |-> urls, mentioned |-> mentioned]
           started == [IdleTask EXCEPT !.ch = c, !.seq = e.seq,
                                       !.content = <<"user", c, e.seq>>]
       IN /\ lastCall' = [Call("on_message", c) EXCEPT
                            !.event = e, !.pre_persona = bot_channel_personas[c]]
          /\ IF from_self \/ slash \/ (~mentioned /\ urls = <<>>)
             THEN UNCHANGED <<tasks, msg_seq>>
             ELSE /\ msg_seq' = msg_seq + 1
                  /\ tasks' = [tasks EXCEPT ![t] =
                        IF mentioned
                        THEN IF bot_channel_personas[c] # None
                             THEN [started EXCEPT !.pc = "typing_persona",
                                                  !.kind = "persona_reply",
                                                  !.persona_id = bot_channel_personas[c]]
                             ELSE [started EXCEPT !.pc = "typing_plain",
                                                  !.kind = "plain_reply"]
                        ELSE [started EXCEPT !.pc = "typing_url", !.kind = "url",
                                             !.url = urls[1]]]
    /\ UNCHANGED <<storeVars, apiVars, legacyVars>>

\* PersonaBot.on_message up to the first await of the handler it calls
OnMessage(t, c, from_self, slash, urls, mentioned) ==
    /\ tasks[t].pc = "idle" /\ t = FreeTask(tasks)
    /\ msg_seq < MaxMessages
    /\ LET e == [seq |-> msg_seq + 1, ch |-> c, from_self |-> from_self,
                 slash |-> slash, urls |-> urls, mentioned |-> mentioned]
           started == [IdleTask EXCEPT !.ch = c, !.seq = e.seq,
                                       !.content = <<"user", c, e.seq>>]
           rec == [Call("on_message", c) EXCEPT
                     !.event = e, !.pre_persona = bot_channel_personas[c]]
       IN IF from_self \/ slash
          THEN /\ lastCall' = rec
               /\ UNCHANGED <<tasks, msg_seq>>
          ELSE IF urls # <<>>
          THEN /\ lastCall' = rec
               /\ msg_seq' = msg_seq + 1
               /\ tasks' = [tasks EXCEPT ![t] =
                              [started EXCEPT !.pc = "typing_url", !.kind = "url",
                                              !.url = urls[1]]]
          ELSE IF ~mentioned
          THEN /\ lastCall' = rec
               /\ UNCHANGED <<tasks, msg_seq>>
          ELSE IF bot_channel_personas[c] # None
          THEN IF loader_get_persona(bot_channel_personas[c]) = None
               THEN /\ lastCall' = [rec EXCEPT !.ret_text = <<"error: persona not found">>]
                    /\ UNCHANGED <<tasks, msg_seq>>
               ELSE /\ lastCall' = rec
                    /\ msg_seq' = msg_seq + 1
                    /\ tasks' = [tasks EXCEPT ![t] =
                                   [started EXCEPT !.pc = "typing_persona",
                                                   !.kind = "persona_reply",
                                                   !.persona_id = bot_channel_personas[c]]]
          ELSE /\ lastCall' = rec
               /\ msg_seq' = msg_seq + 1
               /\ tasks' = [tasks EXCEPT ![t] =
                              [started EXCEPT !.pc = "typing_plain", !.kind = "plain_reply"]]
    /\ UNCHANGED <<storeVars, apiVars, legacyVars>>

\* the handler is inside `async with message.channel.typing()`: it reads what
\* it needs and issues its collaborator call
LegacyTypingEntered(t) ==
    /\ tasks[t].pc \in {"typing_url", "typing_persona", "typing_plain"}
    /\ LET c == tasks[t].ch IN
       tasks' = [tasks EXCEPT ![t] =
           CASE tasks[t].pc = "typing_url" ->
                    [@ EXCEPT !.pc = "legacy_await_api",
                              !.persona_id = bot_channel_personas[c]]
             [] tasks[t].pc = "typing_persona" ->
                    [@ EXCEPT !.pc = "legacy_await_llm",
                              !.history = bot_conversation_history[c],
                              !.messages = persona_response_messages(
                                               SystemPrompt(tasks[t].persona_id),
                                               tasks[t].content,
                                               bot_conversation_history[c])]
             [] OTHER ->
                    [@ EXCEPT !.pc = "legacy_await_llm_plain",
                              !.messages = persona_response_messages(
                                               SystemPrompt(None), tasks[t].content, <<>>)]]
    /\ UNCHANGED <<storeVars, lastCall, apiVars, legacyVars, msg_seq>>

\* respond_with_persona after the LLM call: the pair is appended and the list
\* cut to its last 20, or the error is sent to the channel
LegacyPersonaLLMReturns(t, outcome) ==
    /\ tasks[t].pc = "legacy_await_llm"
    /\ LET c == tasks[t].ch
           exc == chat_completion_raises(outcome)
           response == IF outcome.kind = "null_content" THEN <<"None">>
                       ELSE <<"reply", tasks[t].persona_id, tasks[t].content>>
           h == bot_conversation_history[c]
                    \o <<[role |-> "user", content |-> tasks[t].content],
                         [role |-> "assistant", content |-> response]>>
       IN IF exc # None
          THEN /\ lastCall' = [Call("respond_with_persona", c) EXCEPT
                                 !.persona = tasks[t].persona_id,
                                 !.ret_text = <<"error">>]
               /\ UNCHANGED legacyVars
          ELSE /\ bot_conversation_history' =
                     [bot_conversation_history EXCEPT ![c] =
                        IF Len(h) > 20 THEN LastN(h, 20) ELSE h]
               /\ bot_history_keys' = bot_history_keys \cup {c}
               /\ lastCall' = [Call("respond_with_persona", c) EXCEPT
                                 !.persona = tasks[t].persona_id,
                                 !.ret_text = response]
               /\ UNCHANGED bot_channel_personas
    /\ tasks' = [tasks EXCEPT ![t] = IdleTask]
    /\ UNCHANGED <<storeVars, apiVars, msg_seq>>

\* respond_without_persona after the LLM call
LegacyPlainLLMReturns(t, outcome) ==
    /\ tasks[t].pc = "legacy_await_llm_plain"
    /\ lastCall' = [Call("respond_without_persona", tasks[t].ch) EXCEPT
                      !.ret_text = IF chat_completion_raises(outcome) # None
                                   THEN <<"error">>
                                   ELSE IF outcome.kind = "null_content" THEN <<"None">>
                                   ELSE <<"reply", None, tasks[t].content>>]
    /\ tasks' = [tasks EXCEPT ![t] = IdleTask]
    /\ UNCHANGED <<storeVars, apiVars, legacyVars, msg_seq>>

\* handle_url_summary after the API call: APIClientError is reported; a
\* result is subscripted for the embed, and a missing key is a KeyError that
\* `except Exception` reports
LegacyUrlApiReturns(t, outcome) ==
    /\ tasks[t].pc = "legacy_await_api"
    /\ lastCall' = [Call("handle_url_summary", tasks[t].ch) EXCEPT
                      !.persona = tasks[t].persona_id,
                      !.result = outcome,
                      !.ret_text =
                          IF outcome = "api_error" THEN <<"error", "APIClientError">>
                          ELSE IF EmbedKeys \subseteq IngestResponseKeys THEN <<"embed">>
                          ELSE <<"error", "KeyError">>]
    /\ tasks' = [tasks EXCEPT ![t] = IdleTask]
    /\ UNCHANGED <<storeVars, apiVars, legacyVars, msg_seq>>

\* PersonaBot after some /persona commands: each channel is unbound or bound
\* to a loaded persona, and no conversation has been held yet
InitLegacy ==
    /\ EmptyStore(channel_personas, conversation_history, history_keys)
    /\ appended = conversation_history
    /\ lastCall = NoCall
    /\ load_order = <<"kind", "sarcastic">>
    /\ api = IdleApi
    /\ calls = <<>>
    /\ resp = NoResp
    /\ client = IdleClient
    /\ tasks = [t \in Tasks |-> IdleTask]
    /\ msg_seq = 0
    /\ bot_channel_personas \in [Channels -> {None} \cup LoadedIds]
    /\ bot_conversation_history = [c \in Channels |-> <<>>]
    /\ bot_history_keys = {}

NextLegacy ==
    \/ \E t \in Tasks, c \in Channels, from_self \in BOOLEAN, slash \in BOOLEAN,
          urls \in UrlLists, mentioned \in BOOLEAN :
           OnMessage(t, c, from_self, slash, urls, mentioned)
    \/ \E t \in Tasks : LegacyTypingEntered(t)
    \/ \E t \in Tasks, o \in BotLLMOutcomes : LegacyPersonaLLMReturns(t, o)
    \/ \E t \in Tasks, o \in BotLLMOutcomes : LegacyPlainLLMReturns(t, o)
    \/ \E t \in Tasks, o \in LegacyIngestOutcomes : LegacyUrlApiReturns(t, o)

SpecLegacy == InitLegacy /\ [][NextLegacy]_vars

\* ================================================== claims on the store
\* C1: in every reachable state the stored history of every channel holds at
\* most conversation_history_limit (20) messages
C1_HistoryWithinCap ==
    \A c \in Channels : Len(conversation_history[c]) <= conversation_history_limit

\* a channel that received more than 20 messages and holds exactly 20
C1_Witness ==
    \E c \in Channels :
        /\ Len(appended[c]) > conversation_history_limit
        /\ Len(conversation_history[c]) = conversation_history_limit

\* C2: the stored history of a channel is, in append order, the last min(k, 20)
\* of the k messages appended since its history was last cleared, and
\* add_message on a full history drops the single oldest message and puts the
\* new one last
C2_OldestFirstEviction ==
    /\ \A c \in Channels :
         LET k == Len(appended[c])
             m == Min(k, conversation_history_limit)
         IN /\ Len(conversation_history[c]) = m
            /\ \A i \in 1..m : conversation_history[c][i] = appended[c][k - m + i]
    /\ (lastCall.op = "add_message" /\ Len(lastCall.pre_history) = conversation_history_limit)
         => LET c == lastCall.ch IN
            conversation_history[c] =
                Append(Tail(lastCall.pre_history), appended[c][Len(appended[c])])

\* add_message has just returned on a history that was full
C2_Witness ==
    /\ lastCall.op = "add_message"
    /\ Len(lastCall.pre_history) = conversation_history_limit
    /\ Len(appended[lastCall.ch]) > conversation_history_limit + 1

\* C3: after reset_persona(channel) returns, whatever the state before,
\* get_persona(channel) is None and the channel's history is empty
C3_ResetClearsBoth ==
    lastCall.op = "reset_persona" =>
        /\ channel_personas[lastCall.ch] = None
        /\ conversation_history[lastCall.ch] = <<>>

\* reset_persona has just returned on a channel that had a persona and messages
C3_Witness ==
    /\ lastCall.op = "reset_persona"
    /\ lastCall.pre_persona # None
    /\ lastCall.pre_history # <<>>

\* C7 (as claimed): get_history(channel, n) returns exactly the min(n, len)
\* most recent stored messages for every n >= 0, and uses the window of 10
\* when n is omitted
C7_GetHistoryReturnsLastN ==
    lastCall.op = "get_history" =>
        LET h == conversation_history[lastCall.ch]
            n == IF lastCall.limit = NoLimit THEN conversation_context_window ELSE lastCall.limit[1]
            m == Min(n, Len(h))
            r == lastCall.ret_history
        IN /\ Len(r) = m
           /\ \A i \in 1..m : r[i] = h[Len(h) - m + i]

\* ================================================== claims on the API
NoCallFailed == \A i \in DOMAIN calls : ~calls[i].failed

\* C4 (as claimed): an operation given a persona id that is not loaded ends in
\* a persona-not-found error (HTTP 404 on the API) and never answers with
\* another persona; stated for the requests whose collaborators all succeeded
C4_UnknownPersonaIsNotFound ==
    (resp.done /\ api.kind \in {"ingest", "debate"} /\ api.persona_id = UnknownId
        /\ NoCallFailed)
        => resp.status = 404

\* C5 (as claimed): POST /ingest answers HTTP 400 whenever the article fetch fails
C5_FetchFailureIs400 ==
    (resp.done /\ api.kind = "ingest" /\ calls # <<>>
        /\ calls[Len(calls)].site = "fetch" /\ calls[Len(calls)].failed)
        => resp.status = 400

\* C6: a successful summary request with a given persona carries exactly that
\* persona's name, icon, color and description as loaded, and article_url is
\* the fetched article's url, whatever the LLM returned
C6_SummaryKeepsPersonaMetadata ==
    (resp.done /\ api.kind = "ingest" /\ resp.status = 200 /\ api.persona_id \in LoadedIds)
        => /\ resp.body.persona =
                [name |-> Personas[api.persona_id].name,
                 icon |-> Personas[api.persona_id].icon,
                 color |-> Personas[api.persona_id].color,
                 description |-> Personas[api.persona_id].description]
           /\ resp.body.article_url = api.article.url
           /\ resp.body.article_url = api.url

\* a successful summary for a persona that is not the loader's first one,
\* from an LLM text that strip() changes
C6_Witness ==
    /\ resp.done /\ api.kind = "ingest" /\ resp.status = 200
    /\ api.persona_id \in LoadedIds
    /\ api.persona_id # first_persona(load_order)
    /\ resp.body.summary = <<"b">>

\* C9: every POST /ingest request ends in exactly one of success, 400, 404,
\* 500 and every POST /debate request in one of success, 404, 500; no
\* exception leaves the endpoint unmapped
C9_EveryRequestIsMapped ==
    resp.done =>
        /\ api.kind = "ingest" => resp.status \in {200, 400, 404, 500}
        /\ api.kind = "debate" => resp.status \in {200, 404, 500}
        /\ api.kind \in {"ingest", "debate"} => (resp.status = 200 <=> resp.exc = None)

\* an /ingest request whose LLM call raised an error chat_completion does not
\* translate, answered 500
C9_Witness ==
    /\ resp.done /\ api.kind = "ingest" /\ resp.status = 500
    /\ Len(calls) = 2 /\ calls[2].site = "llm_summary" /\ calls[2].failed

\* C10: within one request each collaborator call site is executed at most
\* once, and after a failed collaborator call no further one is made before
\* the error is returned
C10_NoRetry ==
    /\ client.attempts <= 1
    /\ \A i, j \in DOMAIN calls : i # j => calls[i].site # calls[j].site
    /\ \A i \in DOMAIN calls : calls[i].failed => (i = Len(calls) /\ resp.done /\ resp.exc # None)

\* a request from the bot whose article was fetched and whose LLM call failed,
\* the error handed back to the bot
C10_Witness ==
    /\ api.kind = "ingest" /\ api.via = "bot"
    /\ Len(calls) = 2 /\ calls[2].failed
    /\ client.pc = "done" /\ client.attempts = 1 /\ ~client.result.ok

C17_IngestOrder ==
    api.kind = "ingest" =>
        /\ \A i \in DOMAIN calls :
               calls[i].site = "llm_summary" =>
                   /\ i = 2
                   /\ calls[1].site = "fetch" /\ ~calls[1].failed
                   /\ select_persona(api.persona_id, load_order).raises = None
        /\ (resp.done /\ resp.status = 404) =>
               /\ api.persona_id = UnknownId
               /\ Len(calls) = 1
               /\ calls[1].site = "fetch" /\ ~calls[1].failed
        /\ (resp.done /\ calls # <<>> /\ calls[1].failed) =>
               (Len(calls) = 1 /\ resp.status # 404)

\* a request with an unknown persona id answered 404 after its article was
\* fetched, without an LLM call
C17_Witness ==
    /\ resp.done /\ api.kind = "ingest" /\ api.persona_id = UnknownId
    /\ resp.status = 404
    /\ Len(calls) = 1 /\ calls[1].site = "fetch" /\ ~calls[1].failed
    /\ api.article.url = api.url

\* C18 (as claimed): in a successful POST /debate response context_used is
\* the number of messages in the request's conversation_history, for every
\* history length including 0
C18_ContextUsedIsRequestHistory ==
    (resp.done /\ api.kind = "debate" /\ resp.status = 200) =>
        resp.body.context_used = Len(api.req_history)

\* C19: POST /debate always takes the conversation branch: for every request,
\* an empty conversation_history included, it never calls the article fetcher
\* and makes exactly one LLM call, whose messages are the system prompt, then
\* the request history in order, then the user_message
C19_DebateIsConversation ==
    (api.kind = "debate" /\ api.pc # "idle") =>
        /\ Len(calls) = 1
        /\ calls[1].site = "llm_conversation"
        /\ calls[1].messages =
              <<[role |-> "system", content |-> SystemPrompt(api.persona)]>>
                  \o api.req_history
                  \o <<[role |-> "user", content |-> UserMessage]>>

\* a request with an empty conversation_history answered 200 after one LLM
\* call with two messages
C19_Witness ==
    /\ resp.done /\ api.kind = "debate" /\ resp.status = 200
    /\ api.req_history = <<>>
    /\ Len(calls) = 1 /\ Len(calls[1].messages) = 2

\* ================================================== claims on the handlers
\* C8 (as claimed): while a mention with a bound persona is being handled, no
\* other event's set_persona, reset_persona, clear_history or add_message on
\* the same channel takes effect between the history read and the appends:
\* a handler waiting for the LLM finds the channel as it read it
C8_MentionIsOneStep ==
    \A t \in Tasks :
        tasks[t].pc = "await_llm" =>
            /\ channel_personas[tasks[t].ch] = tasks[t].read_persona
            /\ conversation_history[tasks[t].ch] = tasks[t].read_history

\* C12 (as claimed): in every reachable state of the bot a channel whose
\* history is non-empty has a persona bound
C12_HistoryImpliesPersona ==
    \A c \in Channels :
        conversation_history[c] # <<>> => channel_personas[c] # None

\* C13 (as claimed): once a set-persona for persona P on a channel has
\* completed, every exchange in that channel's history was generated with P's
\* system prompt, whatever mention handlers were in flight; an assistant
\* message <<"reply", p, m>> is the answer to m under the prompt of p
C13_HistoryBelongsToPersona ==
    \A c \in Channels :
        channel_personas[c] \in LoadedIds =>
            \A i \in DOMAIN conversation_history[c] :
                LET m == conversation_history[c][i] IN
                (m.role = "assistant" /\ Len(m.content) = 3) =>
                    m.content[2] = channel_personas[c]

\* C14 (as claimed): handle_mention on a channel with a bound, loadable
\* persona either succeeds, and then the history has gained exactly the user
\* message followed by the assistant response (trimmed to the cap) with the
\* binding unchanged, or raises MessageHandlingError, and then binding and
\* history are exactly as before
C14_MentionChangesStoreIffSuccess ==
    (lastCall.op = "handle_mention" /\ lastCall.persona \in LoadedIds) =>
        LET c == lastCall.ch
            h == conversation_history[c]
            pre == lastCall.pre_history
        IN /\ channel_personas[c] = lastCall.pre_persona
           /\ IF lastCall.raised = None
              THEN /\ Len(h) = Min(Len(pre) + 2, conversation_history_limit)
                   /\ h[Len(h)] = [role |-> "assistant", content |-> lastCall.ret_text]
                   /\ h[Len(h) - 1].role = "user"
                   /\ \A i \in 1..(Len(h) - 2) : h[i] = pre[Len(pre) - (Len(h) - 2) + i]
              ELSE /\ lastCall.raised = "MessageHandlingError"
                   /\ h = pre

\* C15: handle_persona_set with a persona id the loader does not know raises
\* PersonaNotFoundError and leaves the channel's persona binding and history
\* unchanged
C15_UnknownSetLeavesStore ==
    (lastCall.op = "handle_persona_set" /\ lastCall.persona \notin LoadedIds) =>
        /\ lastCall.raised = "PersonaNotFoundError"
        /\ channel_personas[lastCall.ch] = lastCall.pre_persona
        /\ conversation_history[lastCall.ch] = lastCall.pre_history

\* handle_persona_set with an unknown id has just raised on a channel that
\* had a persona bound and an exchange stored
C15_Witness ==
    /\ lastCall.op = "handle_persona_set" /\ lastCall.persona = UnknownId
    /\ lastCall.raised = "PersonaNotFoundError"
    /\ lastCall.pre_persona \in LoadedIds
    /\ Len(lastCall.pre_history) >= 2

\* ============================================ claims on the set-persona paths
\* C16: every successful set-persona path (handle_persona_set, the dropdown
\* callback, /persona <style> of bot/main.py) leaves the channel bound to the
\* chosen persona with an empty history, whatever binding and history it had
C16_SetLeavesPersonaAndEmptyHistory ==
    /\ (lastCall.op \in {"handle_persona_set", "PersonaSelect.callback"}
          /\ lastCall.persona \in LoadedIds) =>
            /\ lastCall.raised = None /\ lastCall.ret_text = <<>>
            /\ channel_personas[lastCall.ch] = lastCall.persona
            /\ conversation_history[lastCall.ch] = <<>>
    /\ (lastCall.op \in {"persona_command", "main.PersonaSelect.callback"}
          /\ lastCall.persona \in LoadedIds) =>
            /\ lastCall.raised = None /\ lastCall.ret_text = <<>>
            /\ bot_channel_personas[lastCall.ch] = lastCall.persona
            /\ bot_conversation_history[lastCall.ch] = <<>>

\* /persona <style> has just set a persona on a channel that was bound to
\* another one and held an exchange
C16_Witness ==
    /\ lastCall.op = "persona_command" /\ lastCall.persona \in LoadedIds
    /\ lastCall.pre_persona \in LoadedIds /\ lastCall.pre_persona # lastCall.persona
    /\ lastCall.pre_history # <<>>
    /\ bot_channel_personas[lastCall.ch] = lastCall.persona

\* ================================================== claims on mentions
\* the channel a stored message was said on
ChannelOf(m) == IF m.role = "user" THEN m.content[2] ELSE m.content[3][2]

StartedBy(e) == {t \in Tasks : tasks[t].seq = e.seq}

\* C21: on_message dispatches in a fixed priority: a message from the bot
\* itself or starting with "/" starts nothing; otherwise a message with at
\* least one URL starts exactly one summary, for the first URL, and no mention
\* reply even if the bot is mentioned; otherwise a reply is started only if the
\* bot is mentioned, in persona mode exactly when the channel has a persona
C21_DispatchPriority ==
    lastCall.op = "on_message" =>
        LET e == lastCall.event
            started == StartedBy(e)
        IN IF e.from_self \/ e.slash
           THEN started = {} /\ lastCall.ret_text = <<>>
           ELSE IF e.urls # <<>>
           THEN /\ Cardinality(started) = 1
                /\ \A t \in started : tasks[t].kind = "url" /\ tasks[t].url = e.urls[1]
           ELSE IF ~e.mentioned
           THEN started = {} /\ lastCall.ret_text = <<>>
           ELSE /\ Cardinality(started) = 1
                /\ \A t \in started :
                      /\ tasks[t].kind \in {"persona_reply", "plain_reply"}
                      /\ tasks[t].kind = "persona_reply" <=> lastCall.pre_persona # None

\* a message that mentions the bot on a channel with a persona and carries two
\* URLs has started the summary of the first one
C21_Witness ==
    /\ lastCall.op = "on_message"
    /\ ~lastCall.event.from_self /\ ~lastCall.event.slash
    /\ lastCall.event.mentioned /\ Len(lastCall.event.urls) = 2
    /\ lastCall.pre_persona # None
    /\ \E t \in Tasks :
          /\ tasks[t].seq = lastCall.event.seq
          /\ tasks[t].kind = "url"
          /\ tasks[t].url = lastCall.event.urls[1]

\* C22 (as claimed): when the /ingest call of a message with a URL returns a
\* successful response of the API's shape, the bot replies with the summary
\* embed and sends no error message
C22_SuccessfulIngestSendsEmbed ==
    (lastCall.op = "handle_url_summary" /\ lastCall.result = "ok") =>
        lastCall.ret_text = <<"embed">>

\* ================================================== claims on the fetcher

\* C23 (as claimed): the content fetch_article returns never has more than
\* max_content_length characters, and truncated is true exactly when the
\* extracted text was longer than max_content_length
C23_ContentWithinMaxLength ==
    api.article # NoArticle =>
        /\ api.article.content_len <= max_content_length
        /\ api.article.truncated <=> api.extracted > max_content_length

\* ================================================== claims on the store's reads

\* C24 (as claimed): get_history returns the history newest first: the most
\* recently appended message is the first element of the result
C24_NewestFirst ==
    (lastCall.op = "get_history" /\ lastCall.ret_history # <<>>) =>
        LET a == appended[lastCall.ch] IN
        lastCall.ret_history[1] = a[Len(a)]

\* the channels that hold at least one stored message
ChannelsWithMessages == {c \in Channels : conversation_history[c] # <<>>}

\* C25 (as claimed): after any sequence of store operations get_all_channels
\* returns exactly the channels that have a persona binding or at least one
\* stored message (a channel only read, or cleared, is not listed), and
\* get_stats' channels_with_history counts only channels with stored messages
C25_ListedChannelsHoldState ==
    /\ get_all_channels(channel_personas, history_keys) =
           {c \in Channels : channel_personas[c] # None} \cup ChannelsWithMessages
    /\ get_stats(channel_personas, conversation_history, history_keys).channels_with_history =
           Cardinality(ChannelsWithMessages)

====
